---- MODULE Spec2Model ----
(***************************************************************************)
(* Pipeline graph engine of the AI Pipeline Editor: the connection         *)
(* validator (isValidConnection), the scheduler (getExecutionOrder) and    *)
(* the editor handlers that build the node and edge collections.           *)
(***************************************************************************)
EXTENDS Integers, Sequences, FiniteSets, TLC

VARIABLES
    nodes,          \* App state: useState<TPipelineNode[]>
    edges,          \* App state: useState<TPipelineEdge[]>
    nodeIdCounter,  \* module-level counter behind `node-${++nodeIdCounter}`
    edgeIdCounter,  \* module-level counter behind `edge-${++edgeIdCounter}`
    lastConnect,    \* outcome of the latest handleConnect gesture
    logs,           \* App state: useState<TExecutionLog[]>
    isExecuting,    \* App state: useState(false)
    pc,             \* where handleExecute stands: "idle" or "awaiting" (line 164)
    runOrder,       \* executionOrder of the handleExecute call in progress (or last)
    loopIndex,      \* position in executionOrder of the step awaited (or last)
    closureNodes,   \* the `nodes` the handleExecute callback closed over
    runResult,      \* how the latest run request went
    removedAhead,   \* ids removed during the run before the loop reached them
    argNodes,       \* argument `nodes` of a direct getExecutionOrder call
    argEdges,       \* argument `edges` of a direct call of either function
    argSource,      \* argument `sourceId` of a direct isValidConnection call
    argTarget,      \* argument `targetId` of a direct isValidConnection call
    argStep,        \* arguments of a direct simulateNodeExecution call
    ret             \* what the direct call returned (or that it threw)

runVars == <<logs, isExecuting, pc, runOrder, loopIndex, closureNodes,
            runResult, removedAhead>>

vars == <<nodes, edges, nodeIdCounter, edgeIdCounter, lastConnect, runVars,
          argNodes, argEdges, argSource, argTarget, argStep, ret>>

appVars == <<nodes, edges, nodeIdCounter, edgeIdCounter, lastConnect, runVars>>
callVars == <<argNodes, argEdges, argSource, argTarget, argStep, ret>>

-----------------------------------------------------------------------------
(* Bounds of the model.                                                    *)

MaxEdges == 3       \* longest edge list passed to isValidConnection
MaxNodes == 3       \* longest node list passed to getExecutionOrder
MaxOrderEdges == 2  \* longest edge list passed to getExecutionOrder
MaxNodeAdds == 3    \* palette drops handled by the editor
MaxConnects == 3    \* connection gestures committed by the editor
MaxRunNodes == 2    \* nodes of a pipeline that is run
MaxRunEdges == 2    \* edges of a pipeline that is run
MaxEditEdges == 1   \* edges connected while pipelines are run

-----------------------------------------------------------------------------
(* Identifiers.  Node ids are opaque strings.  The editor generates        *)
(* "node-1", "node-2", ...; a direct caller of the utilities may pass any  *)
(* string, among them canonical array-index strings such as "1" and "2",   *)
(* which a JavaScript object enumerates before all other keys.             *)

Ids == {"1", "2", "node-1", "node-2"}

\* The integer a property key denotes when it is a canonical array index,
\* -1 when it is not.
ArrayIndex(key) ==
    CASE key = "0" -> 0
      [] key = "1" -> 1
      [] key = "2" -> 2
      [] key = "3" -> 3
      [] OTHER -> -1

IsArrayIndex(key) == ArrayIndex(key) >= 0

\* Object.keys(obj) for an object whose own string keys were created in the
\* order `created`: integer keys ascending, then the others as created.
ObjectKeys(created) ==
    SortSeq(SelectSeq(created, IsArrayIndex),
            LAMBDA a, b : ArrayIndex(a) < ArrayIndex(b))
    \o SelectSeq(created, LAMBDA k : ~IsArrayIndex(k))

Range(s) == {s[i] : i \in 1..Len(s)}

\* All sequences over S of length at most n.
SeqUpTo(S, n) == UNION {[1..k -> S] : k \in 0..n}

-----------------------------------------------------------------------------
(* isValidConnection (utils/pipeline.ts).                                  *)

\* LeaveRecStack without the delete of line 38.
LeaveRecStackForgotten(recStack, nodeId) == recStack

\* Line 38: the node leaves the recursion stack when its subtree is done.
LeaveRecStack(recStack, nodeId) == recStack \ {nodeId}

\* The closure hasCycle with the two sets it mutates threaded through: the
\* result carries `found` and the sets as the call left them.  It filters
\* the parameter `edges` of the enclosing function.
RECURSIVE hasCycle(_, _, _, _)
RECURSIVE hasCycleLoop(_, _, _, _, _)

hasCycle(nodeId, edgeList, visited, recStack) ==
    IF nodeId \in recStack
    THEN [found |-> TRUE, visited |-> visited, recStack |-> recStack]
    ELSE IF nodeId \in visited
    THEN [found |-> FALSE, visited |-> visited, recStack |-> recStack]
    ELSE LET outgoingEdges == SelectSeq(edgeList, LAMBDA e : e.source = nodeId)
             r == hasCycleLoop(outgoingEdges, 1, edgeList,
                               visited \cup {nodeId}, recStack \cup {nodeId})
         IN  IF r.found
             THEN r
             ELSE [found |-> FALSE, visited |-> r.visited,
                   recStack |-> LeaveRecStack(r.recStack, nodeId)]

\* The for-of loop over outgoingEdges, from position i on.
hasCycleLoop(outgoingEdges, i, edgeList, visited, recStack) ==
    IF i > Len(outgoingEdges)
    THEN [found |-> FALSE, visited |-> visited, recStack |-> recStack]
    ELSE LET r == hasCycle(outgoingEdges[i].target, edgeList, visited, recStack)
         IN  IF r.found
             THEN r
             ELSE hasCycleLoop(outgoingEdges, i + 1, edgeList,
                               r.visited, r.recStack)

\* Line 43: the edge list with the candidate appended.  The code builds it
\* (and an adjacency map from it) but hasCycle never reads either.
tempEdges(sourceId, targetId, edgeList) ==
    Append(edgeList, [id |-> "", source |-> sourceId, target |-> targetId])

\* IsSelfLoop with the guard of lines 12-14 left out.
NeverSelfLoop(sourceId, targetId) == FALSE

\* Lines 11-14: the self-loop guard.
IsSelfLoop(sourceId, targetId) == sourceId = targetId

isValidConnection(sourceId, targetId, edgeList) ==
    IF IsSelfLoop(sourceId, targetId)
    THEN FALSE
    ELSE ~hasCycle(sourceId, edgeList, {}, {}).found

-----------------------------------------------------------------------------
(* getExecutionOrder (utils/pipeline.ts).                                  *)

CyclicOrDisconnected == "Pipeline contains cycles or disconnected nodes"

\* Line 67: new Set(nodes.map((n) => n.id)).
nodeIdSet(nodeList) == {nodeList[i].id : i \in 1..Len(nodeList)}

\* Lines 72-75: the keys of inDegree (and graph) in the order the forEach
\* creates them; assigning an existing key again does not move it.
RECURSIVE createdKeys(_)
createdKeys(nodeList) ==
    IF nodeList = <<>>
    THEN <<>>
    ELSE LET n == Len(nodeList)
             front == createdKeys(SubSeq(nodeList, 1, n - 1))
         IN  IF nodeList[n].id \in Range(front)
             THEN front
             ELSE Append(front, nodeList[n].id)

\* EdgeIsUsed testing the target only.
EdgeIsUsedTargetOnly(edge, nodeIds) == edge.target \in nodeIds

\* Line 79: only edges with both endpoints among the nodes are used.
EdgeIsUsed(edge, nodeIds) == edge.source \in nodeIds /\ edge.target \in nodeIds

\* EdgeEnds with source and target interchanged.
EdgeEndsSwapped(edge) == [from |-> edge.target, to |-> edge.source]

\* Lines 80-81: the adjacency entry an edge contributes, graph[from].push(to),
\* and the in-degree it raises, inDegree[to]++.
EdgeEnds(edge) == [from |-> edge.source, to |-> edge.target]

\* Lines 78-83: graph and inDegree after the first i edges.
RECURSIVE buildGraph(_, _, _)
buildGraph(nodeIds, edgeList, i) ==
    IF i = 0
    THEN [graph |-> [k \in nodeIds |-> <<>>], inDegree |-> [k \in nodeIds |-> 0]]
    ELSE LET g == buildGraph(nodeIds, edgeList, i - 1)
             edge == edgeList[i]
             ends == EdgeEnds(edge)
         IN  IF EdgeIsUsed(edge, nodeIds)
             THEN [graph |-> [g.graph EXCEPT ![ends.from] = Append(@, ends.to)],
                   inDegree |-> [g.inDegree EXCEPT ![ends.to] = @ + 1]]
             ELSE g

\* seedQueue filling the queue with unshift instead of push.
seedQueueUnshift(nodeList, inDegree) ==
    LET q == SelectSeq(ObjectKeys(createdKeys(nodeList)), LAMBDA k : inDegree[k] = 0)
    IN  [i \in 1..Len(q) |-> q[Len(q) + 1 - i]]

\* Lines 86-91: the queue seeded from Object.keys(inDegree).
seedQueue(nodeList, inDegree) ==
    SelectSeq(ObjectKeys(createdKeys(nodeList)), LAMBDA k : inDegree[k] = 0)

\* BecameReady tested on the value before the decrement of line 101.
BecameReadyBeforeDecrement(inDegreeNow) == inDegreeNow + 1 = 0

\* Line 102: a neighbor is enqueued when its in-degree has just reached 0.
BecameReady(inDegreeNow) == inDegreeNow = 0

\* Lines 100-105: the forEach over graph[current], from position i on.
RECURSIVE relaxNeighbors(_, _, _, _)
relaxNeighbors(neighbors, i, queue, inDegree) ==
    IF i > Len(neighbors)
    THEN [queue |-> queue, inDegree |-> inDegree]
    ELSE LET neighbor == neighbors[i]
             dec == [inDegree EXCEPT ![neighbor] = @ - 1]
         IN  relaxNeighbors(neighbors, i + 1,
                            IF BecameReady(dec[neighbor])
                            THEN Append(queue, neighbor) ELSE queue,
                            dec)

\* dequeue taking the node from the back of the queue (pop).
dequeuePop(queue) ==
    [current |-> queue[Len(queue)], rest |-> SubSeq(queue, 1, Len(queue) - 1)]

\* Line 97: queue.shift() takes the node at the front.
dequeue(queue) == [current |-> Head(queue), rest |-> Tail(queue)]

\* Lines 96-106: the while loop.
RECURSIVE drainQueue(_, _, _, _)
drainQueue(queue, inDegree, graph, executionOrder) ==
    IF queue = <<>>
    THEN executionOrder
    ELSE LET current == dequeue(queue).current
             r == relaxNeighbors(graph[current], 1, dequeue(queue).rest, inDegree)
         IN  drainQueue(r.queue, r.inDegree, graph,
                        Append(executionOrder, current))

\* IsIncomplete with the throw of lines 109-111 never taken.
IsIncompleteNeverThrows(executionOrder, nodeList) == FALSE

\* IsIncomplete with the comparison the wrong way round.
IsIncompleteWrongSide(executionOrder, nodeList) ==
    Len(executionOrder) > Len(nodeList)

\* Line 109: the completeness test behind the throw.
IsIncomplete(executionOrder, nodeList) == Len(executionOrder) # Len(nodeList)

\* The call as a whole: either it throws (threw, with the message) or it
\* returns the order.
getExecutionOrder(nodeList, edgeList) ==
    LET nodeIds == nodeIdSet(nodeList)
        g == buildGraph(nodeIds, edgeList, Len(edgeList))
        executionOrder == drainQueue(seedQueue(nodeList, g.inDegree),
                                     g.inDegree, g.graph, <<>>)
    IN  IF IsIncomplete(executionOrder, nodeList)
        THEN [threw |-> TRUE, message |-> CyclicOrDisconnected, order |-> <<>>]
        ELSE [threw |-> FALSE, message |-> "", order |-> executionOrder]

-----------------------------------------------------------------------------
(* Graph notions the claims are stated in (independent of the code).       *)

\* The directed pairs of an edge list.
Pairs(edgeList) == {<<edgeList[i].source, edgeList[i].target>> : i \in 1..Len(edgeList)}

\* y is reachable from x by a path of at least one edge of P.
RECURSIVE ReachFrom(_, _)
ReachFrom(frontier, P) ==
    LET next == frontier \cup {p[2] : p \in {q \in P : q[1] \in frontier}}
    IN  IF next = frontier THEN frontier ELSE ReachFrom(next, P)

HasPath(x, y, P) == y \in ReachFrom({p[2] : p \in {q \in P : q[1] = x}}, P)

Acyclic(P) == \A p \in P : ~HasPath(p[1], p[1], P)

-----------------------------------------------------------------------------
(* Direct calls of the utilities on arbitrary (bounded) arguments.         *)

EdgeRecords == [id : {"e"}, source : Ids, target : Ids]
EdgeLists == SeqUpTo(EdgeRecords, MaxEdges)
OrderEdgeLists == SeqUpTo(EdgeRecords, MaxOrderEdges)

NotCalled == [fn |-> "none", valid |-> FALSE, threw |-> FALSE, order |-> <<>>]

NoStep == [nodeId |-> "", nodeName |-> "", nodeType |-> ""]

NoConnect == [source |-> "", target |-> "", outcome |-> "none"]

\* No run requested yet: empty log, Execute enabled.
RunIdle ==
    /\ logs = <<>>
    /\ isExecuting = FALSE
    /\ pc = "idle"
    /\ runOrder = <<>>
    /\ loopIndex = 0
    /\ closureNodes = <<>>
    /\ runResult = "none"
    /\ removedAhead = {}

AppIdle ==
    /\ nodes = <<>>
    /\ edges = <<>>
    /\ nodeIdCounter = 0
    /\ edgeIdCounter = 0
    /\ lastConnect = NoConnect
    /\ RunIdle

InitValid ==
    /\ AppIdle
    /\ argNodes = <<>>
    /\ argEdges \in EdgeLists
    /\ argSource \in Ids
    /\ argTarget \in Ids
    /\ argStep = NoStep
    /\ ret = NotCalled

CallIsValidConnection ==
    /\ ret.fn = "none"
    /\ ret' = [fn |-> "isValidConnection",
               valid |-> isValidConnection(argSource, argTarget, argEdges),
               threw |-> FALSE, order |-> <<>>]
    /\ UNCHANGED <<appVars, argNodes, argEdges, argSource, argTarget, argStep>>

NextValid == CallIsValidConnection

SpecValid == InitValid /\ [][NextValid]_vars

\* Node records as the unit tests build them; only the id varies.
NodeRecord(id) == [id |-> id, type |-> "Model", name |-> id, status |-> "idle"]

\* Node lists with pairwise different ids, at most MaxNodes long.
NodeLists ==
    {[i \in 1..Len(s) |-> NodeRecord(s[i])] :
        s \in {t \in SeqUpTo(Ids, MaxNodes) :
                 \A i, j \in 1..Len(t) : t[i] = t[j] => i = j}}

InitOrder ==
    /\ AppIdle
    /\ argNodes \in NodeLists
    /\ argEdges \in OrderEdgeLists
    /\ argSource = ""
    /\ argTarget = ""
    /\ argStep = NoStep
    /\ ret = NotCalled

CallGetExecutionOrder ==
    /\ ret.fn = "none"
    /\ LET r == getExecutionOrder(argNodes, argEdges)
       IN  ret' = [fn |-> "getExecutionOrder", valid |-> FALSE,
                   threw |-> r.threw, order |-> r.order]
    /\ UNCHANGED <<appVars, argNodes, argEdges, argSource, argTarget, argStep>>

NextOrder == CallGetExecutionOrder

SpecOrder == InitOrder /\ [][NextOrder]_vars

-----------------------------------------------------------------------------
(* The editor (App component, the variant that validates connections).     *)

\* Node kinds offered by the catalog (TNodeType.name): two of the four
\* standard kinds, which handleNodeAdd only copies into the node.
NodeTypeNames == {"Data Source", "Model"}

\* A connection gesture with no source or no target carries null there.
Null == ""

\* handleNodeAdd: a palette drop creates node-<n> with status idle; the
\* functional update keeps the list when the id is already present.
handleNodeAdd(typeName) ==
    /\ nodeIdCounter < MaxNodeAdds
    /\ nodeIdCounter' = nodeIdCounter + 1
    /\ LET newNode == [id |-> "node-" \o ToString(nodeIdCounter'),
                       type |-> typeName,
                       name |-> typeName \o " " \o ToString(nodeIdCounter'),
                       status |-> "idle"]
       IN  nodes' = IF \E i \in 1..Len(nodes) : nodes[i].id = newNode.id
                    THEN nodes
                    ELSE Append(nodes, newNode)
    /\ UNCHANGED <<edges, edgeIdCounter, lastConnect, runVars, callVars>>

\* ConnectionAllowed as in the App variant that commits every connection.
ConnectionAllowedUnchecked(source, target, edgeList) == TRUE

\* Line 317 of the App: the test that lets a connection through.
ConnectionAllowed(source, target, edgeList) ==
    isValidConnection(source, target, edgeList)

\* handleConnect without the return after the alert: an invalid
\* connection is reported and appended all the same.
handleConnectNoReturn(source, target) ==
    /\ edgeIdCounter < MaxConnects
    /\ IF source = Null \/ target = Null
       THEN /\ lastConnect' = [source |-> source, target |-> target,
                               outcome |-> "ignored"]
            /\ UNCHANGED <<edges, edgeIdCounter>>
       ELSE /\ edgeIdCounter' = edgeIdCounter + 1
            /\ edges' = Append(edges, [id |-> "edge-" \o ToString(edgeIdCounter'),
                                       source |-> source, target |-> target])
            /\ lastConnect' = [source |-> source, target |-> target,
                               outcome |-> IF ConnectionAllowed(source, target, edges)
                                           THEN "accepted" ELSE "rejected"]
    /\ UNCHANGED <<nodes, nodeIdCounter, runVars, callVars>>

\* handleConnect: ignore an incomplete gesture, alert and drop an invalid
\* one, otherwise append edge-<n>.
handleConnect(source, target) ==
    /\ edgeIdCounter < MaxConnects
    /\ IF source = Null \/ target = Null
       THEN /\ lastConnect' = [source |-> source, target |-> target,
                               outcome |-> "ignored"]
            /\ UNCHANGED <<edges, edgeIdCounter>>
       ELSE IF ~ConnectionAllowed(source, target, edges)
       THEN /\ lastConnect' = [source |-> source, target |-> target,
                               outcome |-> "rejected"]
            /\ UNCHANGED <<edges, edgeIdCounter>>
       ELSE /\ edgeIdCounter' = edgeIdCounter + 1
            /\ edges' = Append(edges, [id |-> "edge-" \o ToString(edgeIdCounter'),
                                       source |-> source, target |-> target])
            /\ lastConnect' = [source |-> source, target |-> target,
                               outcome |-> "accepted"]
    /\ UNCHANGED <<nodes, nodeIdCounter, runVars, callVars>>

\* The handles a gesture can start and end on: those of the placed nodes.
PlacedIds == nodeIdSet(nodes)

Init ==
    /\ AppIdle
    /\ argNodes = <<>>
    /\ argEdges = <<>>
    /\ argSource = ""
    /\ argTarget = ""
    /\ argStep = NoStep
    /\ ret = NotCalled

Next ==
    \/ \E typeName \in NodeTypeNames : handleNodeAdd(typeName)
    \/ \E source, target \in PlacedIds \cup {Null} : handleConnect(source, target)

Spec == Init /\ [][Next]_vars

-----------------------------------------------------------------------------
(* simulateNodeExecution (utils/pipeline.ts).  The timestamp, Date.now(),  *)
(* is left out of the entry: nothing reads it but the display.             *)

\* Property names every object literal inherits from Object.prototype:
\* messages[nodeType] finds a (truthy) member there, not undefined.
InheritedKeys == {"constructor", "toString", "valueOf", "hasOwnProperty"}

Undefined == "undefined"
InheritedMember == "[Object.prototype member]"

\* Lines 124-129 and the lookup messages[nodeType] of line 131.
messagesLookup(nodeName, nodeType) ==
    CASE nodeType = "Data Source" ->
             "Data Source \"" \o nodeName \o "\" processed 100 records"
      [] nodeType = "Transformer" ->
             "Transformer \"" \o nodeName \o "\" applied transformation"
      [] nodeType = "Model" ->
             "Model \"" \o nodeName \o "\" generated predictions"
      [] nodeType = "Sink" ->
             "Sink \"" \o nodeName \o "\" saved results"
      [] nodeType \in InheritedKeys -> InheritedMember
      [] OTHER -> Undefined

\* simulateNodeExecution returning an entry without the node's id.
simulateNodeExecutionAnonymous(nodeId, nodeName, nodeType) ==
    [nodeId |-> "", nodeName |-> nodeName,
     message |-> "Node \"" \o nodeName \o "\" executed"]

simulateNodeExecution(nodeId, nodeName, nodeType) ==
    LET found == messagesLookup(nodeName, nodeType)
        message == IF found # Undefined
                   THEN found
                   ELSE "Node \"" \o nodeName \o "\" executed"
    IN  [nodeId |-> nodeId, nodeName |-> nodeName, message |-> message]

\* Arguments of the direct calls: ids and labels as the App makes them,
\* the four kinds of the palette, names every object inherits, and other
\* strings.
StepIds == {"node-1", "node-2"}
StepNames == {"Data Source 1", "Loader", ""}
StepKinds == {"Data Source", "Transformer", "Model", "Sink",
              "constructor", "toString", "Custom", "sink", "Unknown", ""}

InitSim ==
    /\ AppIdle
    /\ argNodes = <<>>
    /\ argEdges = <<>>
    /\ argSource = ""
    /\ argTarget = ""
    /\ argStep \in [nodeId : StepIds, nodeName : StepNames, nodeType : StepKinds]
    /\ ret = NotCalled

CallSimulateNodeExecution ==
    /\ ret.fn = "none"
    /\ ret' = [fn |-> "simulateNodeExecution", valid |-> FALSE,
               threw |-> FALSE, order |-> <<>>,
               log |-> simulateNodeExecution(argStep.nodeId, argStep.nodeName,
                                             argStep.nodeType)]
    /\ UNCHANGED <<appVars, argNodes, argEdges, argSource, argTarget, argStep>>

NextSim == CallSimulateNodeExecution

SpecSim == InitSim /\ [][NextSim]_vars

-----------------------------------------------------------------------------
(* handleExecute (App component).  Everything between two awaits runs      *)
(* without interruption and React 18 renders its state updates together,   *)
(* so each such stretch is one step.                                       *)

\* resetStatus leaving the status of the previous run in place.
resetStatusForgotten(node) == node

\* Lines 120-125: the reset of one node at run start.
resetStatus(node) == [node EXCEPT !.status = "idle"]

\* The functional updates of lines 155-161 and 175-181.
setStatus(nodeList, nodeId, status) ==
    [k \in 1..Len(nodeList) |->
        IF nodeList[k].id = nodeId
        THEN [nodeList[k] EXCEPT !.status = status]
        ELSE nodeList[k]]

\* CompletedStatus when the update of lines 175-181 writes idle.
CompletedStatusIdle == "idle"

\* CompletedStatus when the update of lines 175-181 is left out.
CompletedStatusForgotten == "running"

\* Line 178: the status a node gets when its step is done.
CompletedStatus == "completed"

\* Line 150: nodes.find((n) => n.id === nodeId) as a position, 0 when absent.
findNode(nodeList, nodeId) ==
    IF \E k \in 1..Len(nodeList) : nodeList[k].id = nodeId
    THEN CHOOSE k \in 1..Len(nodeList) :
            /\ nodeList[k].id = nodeId
            /\ \A l \in 1..(k - 1) : nodeList[l].id # nodeId
    ELSE 0

\* nextFound passing over the position it is asked to start from.
RECURSIVE nextFoundSkipping(_, _, _)
nextFoundSkipping(order, j, nodeList) ==
    IF j + 1 > Len(order)
    THEN 0
    ELSE IF findNode(nodeList, order[j + 1]) # 0
    THEN j + 1
    ELSE nextFoundSkipping(order, j + 1, nodeList)

\* Lines 148-152: the first position from j on whose id the closure's
\* nodes hold (`if (!node) continue` skips the others); 0 past the end.
RECURSIVE nextFound(_, _, _)
nextFound(order, j, nodeList) ==
    IF j > Len(order)
    THEN 0
    ELSE IF findNode(nodeList, order[j]) # 0
    THEN j
    ELSE nextFound(order, j + 1, nodeList)

\* errorMessageOf ignoring what was thrown.
errorMessageOfDropped(error) == "Execution failed"

\* Lines 184-185: the text taken from what was thrown.
errorMessageOf(error) ==
    IF error.isError THEN error.message ELSE "Execution failed"

\* Lines 186-194: the entry the catch block appends.
systemLog(error) ==
    [nodeId |-> "", nodeName |-> "System",
     message |-> "Error: " \o errorMessageOf(error)]

\* AfterFinally when the finally block is missing.
AfterFinallyForgotten == TRUE

\* Line 196: isExecuting as the finally block leaves it.
AfterFinally == FALSE

\* PipelineIsEmpty with the guard of lines 111-114 left out.
PipelineIsEmptyIgnored(nodeList) == FALSE

\* Line 111: nodes.length === 0.
PipelineIsEmpty(nodeList) == Len(nodeList) = 0

\* ExecuteDisabled for a button that is never disabled.
ExecuteDisabledNever == FALSE

\* Line 207: the Execute button is disabled while a run is active and
\* while there is no node.
ExecuteDisabled == isExecuting \/ Len(nodes) = 0

\* ClearedLogs when setLogs([]) of line 117 is left out.
ClearedLogsKept == logs

\* Line 117: setLogs([]) at run start.
ClearedLogs == <<>>

\* appendLog putting the new entry in front.
appendLogInFront(logList, entry) == <<entry>> \o logList

\* Lines 172 and 186-194: setLogs((prev) => [...prev, entry]).
appendLog(logList, entry) == Append(logList, entry)

\* Thrown when the scheduler's failure is not noticed.
ThrownIgnored(r) == FALSE

\* Lines 127, 145 and 183: a throw of getExecutionOrder leaves the try
\* block for the catch block before the loop is entered.
Thrown(r) == r.threw

\* The for loop from position j on, with the nodes as the updates so far
\* leave them: set the next node found to running and suspend at the
\* await, or leave the loop and the try block.
loopFrom(order, closure, j, nodesNow) ==
    LET k == nextFound(order, j, closure)
    IN  IF k = 0
        THEN /\ nodes' = nodesNow
             /\ isExecuting' = AfterFinally
             /\ pc' = "idle"
             /\ loopIndex' = Len(order) + 1
             /\ runResult' = "completed"
        ELSE /\ nodes' = setStatus(nodesNow, order[k], "running")
             /\ isExecuting' = TRUE
             /\ pc' = "awaiting"
             /\ loopIndex' = k
             /\ runResult' = "started"

\* handleExecute up to its first await (or to its end).  The handler does
\* not ask whether a run is under way: that is left to the button.
handleExecute ==
    /\ IF PipelineIsEmpty(nodes)
       THEN /\ runResult' = "empty"
            /\ UNCHANGED <<nodes, logs, isExecuting, pc, runOrder, loopIndex,
                           closureNodes, removedAhead>>
       ELSE LET idleNodes == [k \in 1..Len(nodes) |-> resetStatus(nodes[k])]
                r == getExecutionOrder(nodes, edges)
            IN  /\ closureNodes' = nodes
                /\ removedAhead' = {}
                /\ IF Thrown(r)
                   THEN /\ logs' = appendLog(ClearedLogs,
                                             systemLog([isError |-> TRUE,
                                                        message |-> r.message]))
                        /\ nodes' = idleNodes
                        /\ isExecuting' = AfterFinally
                        /\ pc' = "idle"
                        /\ runOrder' = <<>>
                        /\ loopIndex' = 0
                        /\ runResult' = "schedulerFailed"
                   ELSE /\ logs' = ClearedLogs
                        /\ runOrder' = r.order
                        /\ loopFrom(r.order, nodes, 1, idleNodes)
    /\ UNCHANGED <<edges, nodeIdCounter, edgeIdCounter, lastConnect, callVars>>

\* The await of line 164 resolves: log the step, mark the node completed
\* and go on with the loop.
StepResolves ==
    /\ pc = "awaiting"
    /\ LET nodeId == runOrder[loopIndex]
           node == closureNodes[findNode(closureNodes, nodeId)]
           log == simulateNodeExecution(node.id, node.name, node.type)
       IN  /\ logs' = appendLog(logs, log)
           /\ loopFrom(runOrder, closureNodes, loopIndex + 1,
                       setStatus(nodes, nodeId, CompletedStatus))
    /\ UNCHANGED <<edges, nodeIdCounter, edgeIdCounter, lastConnect,
                   runOrder, closureNodes, removedAhead, callVars>>

\* A step performer that can fail is not part of the code: the step is a
\* timer and simulateNodeExecution, neither of which throws.
PerformerMayFail == TRUE

\* What a failing performer throws.
StepErrors == {[isError |-> TRUE, message |-> "step failed"],
               [isError |-> TRUE, message |-> "timed out"]}

\* The step throws inside the try block: the catch block logs it and the
\* finally block ends the run.
StepFails(error) ==
    /\ pc = "awaiting"
    /\ PerformerMayFail
    /\ logs' = appendLog(logs, systemLog(error))
    /\ isExecuting' = AfterFinally
    /\ pc' = "idle"
    /\ runResult' = "stepFailed"
    /\ UNCHANGED <<nodes, edges, nodeIdCounter, edgeIdCounter, lastConnect,
                   runOrder, loopIndex, closureNodes, removedAhead, callVars>>

\* handleNodesChange with a remove change (applyNodeChanges drops the
\* node); it is not disabled during a run.
handleNodesChange(nodeId) ==
    /\ nodeId \in nodeIdSet(nodes)
    /\ nodes' = SelectSeq(nodes, LAMBDA n : n.id # nodeId)
    /\ removedAhead' =
          IF /\ pc = "awaiting"
             /\ \E k \in (loopIndex + 1)..Len(runOrder) : runOrder[k] = nodeId
          THEN removedAhead \cup {nodeId}
          ELSE removedAhead
    /\ UNCHANGED <<edges, nodeIdCounter, edgeIdCounter, lastConnect, logs,
                   isExecuting, pc, runOrder, loopIndex, closureNodes,
                   runResult, callVars>>

\* The kind of the k-th node of a pipeline that is run.
KindOf(k) == IF k % 2 = 1 THEN "Data Source" ELSE "Model"

\* The pipeline of n nodes as handleNodeAdd builds it.
PlacedNodes(n) ==
    [k \in 1..n |-> [id |-> "node-" \o ToString(k),
                     type |-> KindOf(k),
                     name |-> KindOf(k) \o " " \o ToString(k),
                     status |-> "idle"]]

\* Edge lists over n nodes as handleConnect numbers them; none is a
\* self-loop, some are cyclic.
PlacedEdges(n) ==
    LET ids == {"node-" \o ToString(k) : k \in 1..n}
        ends == {p \in ids \X ids : p[1] # p[2]}
    IN  {[j \in 1..Len(s) |-> [id |-> "edge-" \o ToString(j),
                               source |-> s[j][1], target |-> s[j][2]]] :
            s \in SeqUpTo(ends, MaxRunEdges)}

InitRun ==
    /\ \E n \in 0..MaxRunNodes :
          /\ nodes = PlacedNodes(n)
          /\ nodeIdCounter = n
          /\ edges \in PlacedEdges(n)
    /\ edgeIdCounter = Len(edges)
    /\ lastConnect = NoConnect
    /\ RunIdle
    /\ argNodes = <<>>
    /\ argEdges = <<>>
    /\ argSource = ""
    /\ argTarget = ""
    /\ argStep = NoStep
    /\ ret = NotCalled

\* A click on Execute.
ExecuteClick == ~ExecuteDisabled /\ handleExecute

\* handleExecute reached with no node, where the button does not stand in
\* the way: the guard of lines 111-114 is then all that answers.
RunRequestOnEmpty == ~isExecuting /\ Len(nodes) = 0 /\ handleExecute

\* The awaited step settles, one way or the other.
StepSettles == StepResolves \/ \E error \in StepErrors : StepFails(error)

NextRun ==
    \/ ExecuteClick
    \/ RunRequestOnEmpty
    \/ StepResolves
    \/ \E error \in StepErrors : StepFails(error)
    \/ \E nodeId \in PlacedIds : handleNodesChange(nodeId)

SpecRun == InitRun /\ [][NextRun]_vars

\* Every awaited step settles in the end.
SpecRunFair == SpecRun /\ WF_vars(StepSettles)

-----------------------------------------------------------------------------
(* Connecting while pipelines are run: the validating App, whose canvas    *)
(* stays live during a run.  The nodes are placed, the edges are drawn     *)
(* between and during the runs.                                            *)

InitEdit ==
    /\ \E n \in 1..MaxRunNodes :
          /\ nodes = PlacedNodes(n)
          /\ nodeIdCounter = n
    /\ edges = <<>>
    /\ edgeIdCounter = 0
    /\ lastConnect = NoConnect
    /\ RunIdle
    /\ argNodes = <<>>
    /\ argEdges = <<>>
    /\ argSource = ""
    /\ argTarget = ""
    /\ argStep = NoStep
    /\ ret = NotCalled

\* A connection gesture on the canvas.
ConnectGesture(source, target) ==
    /\ Len(edges) < MaxEditEdges
    /\ handleConnect(source, target)

NextEdit ==
    \/ ExecuteClick
    \/ StepResolves
    \/ \E error \in StepErrors : StepFails(error)
    \/ \E source, target \in PlacedIds \cup {Null} :
          ConnectGesture(source, target)

SpecEdit == InitEdit /\ [][NextEdit]_vars

-----------------------------------------------------------------------------
(* Properties of isValidConnection, checked under SpecValid.               *)

ValidCalled == ret.fn = "isValidConnection"

\* C1: whenever the edge list holds a directed path from b to a (a # b),
\* isValidConnection(a, b, E) returns false.
C1_CycleClosingEdgeRejected ==
    (/\ ValidCalled
     /\ argSource # argTarget
     /\ HasPath(argTarget, argSource, Pairs(argEdges)))
    => ~ret.valid

\* C2: isValidConnection(a, a, E) returns false for every a and every E.
C2_SelfLoopRejected ==
    (ValidCalled /\ argSource = argTarget) => ~ret.valid

\* A self-loop proposed on a node that has outgoing edges in an acyclic E.
C2_Witness ==
    /\ ValidCalled
    /\ argSource = argTarget
    /\ \E i \in 1..Len(argEdges) : argEdges[i].source = argSource
    /\ Acyclic(Pairs(argEdges))
    /\ ~ret.valid

\* C3: for acyclic E and a # b with no path from b to a,
\* isValidConnection(a, b, E) returns true.
C3_LegalEdgeAccepted ==
    (/\ ValidCalled
     /\ argSource # argTarget
     /\ Acyclic(Pairs(argEdges))
     /\ ~HasPath(argTarget, argSource, Pairs(argEdges)))
    => ret.valid

\* A legal edge accepted although its target is already reachable from its
\* source along two different edges.
C3_Witness ==
    /\ ValidCalled
    /\ argSource # argTarget
    /\ Acyclic(Pairs(argEdges))
    /\ ~HasPath(argTarget, argSource, Pairs(argEdges))
    /\ \E i, j \in 1..Len(argEdges) :
          /\ i # j
          /\ argEdges[i].source = argSource
          /\ argEdges[j].source = argSource
          /\ HasPath(argEdges[j].target, argEdges[i].target, Pairs(argEdges))
    /\ ret.valid

-----------------------------------------------------------------------------
(* Properties of the editor, checked under Spec.                           *)

\* C4: the edges committed through handleConnect never form a cycle, so
\* the scheduler never throws on the editor's nodes and edges.
C4_CommittedEdgesAcyclic ==
    /\ Acyclic(Pairs(edges))
    /\ ~getExecutionOrder(nodes, edges).threw

-----------------------------------------------------------------------------
(* Properties of getExecutionOrder, checked under SpecOrder.               *)

OrderCalled == ret.fn = "getExecutionOrder"
OrderReturned == OrderCalled /\ ~ret.threw

ArgIds == {argNodes[i].id : i \in 1..Len(argNodes)}

\* The edges of the call whose endpoints are both ids of nodes.
PresentEdges ==
    {i \in 1..Len(argEdges) :
        argEdges[i].source \in ArgIds /\ argEdges[i].target \in ArgIds}

PresentPairs == {<<argEdges[i].source, argEdges[i].target>> : i \in PresentEdges}

\* The positions at which id occurs in the returned order.
Positions(id) == {k \in 1..Len(ret.order) : ret.order[k] = id}

\* x occurs in the returned order, and every occurrence of x is before
\* every occurrence of y.
Before(x, y) ==
    /\ Positions(x) # {}
    /\ Positions(y) # {}
    /\ \A k \in Positions(x), l \in Positions(y) : k < l

NoIncoming(id) == \A i \in PresentEdges : argEdges[i].target # id

\* C6: in the returned order the source of every edge between present
\* nodes is at a strictly smaller index than its target.
C6_SourceBeforeTarget ==
    OrderReturned =>
        \A i \in PresentEdges : Before(argEdges[i].source, argEdges[i].target)

\* A three-node order returned for two different dependencies.
C6_Witness ==
    /\ OrderReturned
    /\ Len(ret.order) = 3
    /\ Cardinality(PresentPairs) >= 2

\* C7: the returned order is a permutation of the node ids.
C7_OrderIsPermutation ==
    OrderReturned =>
        /\ Len(ret.order) = Len(argNodes)
        /\ \A id \in ArgIds : Cardinality(Positions(id)) = 1
        /\ \A k \in 1..Len(ret.order) : ret.order[k] \in ArgIds

\* Three nodes scheduled, with one edge used and one edge ignored.
C7_Witness ==
    /\ OrderReturned
    /\ Len(argNodes) = 3
    /\ PresentEdges # {}
    /\ PresentEdges # 1..Len(argEdges)

\* C8: a cycle (a self-loop included) among the edges between present
\* nodes makes the call throw, without any partial order.
C8_CycleThrows ==
    (OrderCalled /\ ~Acyclic(PresentPairs)) => (ret.threw /\ ret.order = <<>>)

\* The call threw on a two-node cycle while another node was schedulable.
C8_Witness ==
    /\ OrderCalled
    /\ ret.threw
    /\ \E x, y \in ArgIds : x # y /\ <<x, y>> \in PresentPairs /\ <<y, x>> \in PresentPairs
    /\ \E z \in ArgIds : NoIncoming(z)

\* C9 as stated: of two nodes without incoming edge, the one listed earlier
\* in nodes is earlier in the returned order, whatever the ids.
C9_SeedsInInputOrder ==
    OrderReturned =>
        \A i, j \in 1..Len(argNodes) :
            (i < j /\ NoIncoming(argNodes[i].id) /\ NoIncoming(argNodes[j].id))
            => Before(argNodes[i].id, argNodes[j].id)

\* C9 as amended: of two nodes without incoming edge, ids that are
\* canonical array indices come first, in ascending numeric order; among
\* the other ids the one listed earlier in nodes is earlier in the order.
C9_SeedsInKeyOrder ==
    OrderReturned =>
        \A i, j \in 1..Len(argNodes) :
            LET x == argNodes[i].id
                y == argNodes[j].id
            IN  (i # j /\ NoIncoming(x) /\ NoIncoming(y)) =>
                    /\ (~IsArrayIndex(x) /\ ~IsArrayIndex(y) /\ i < j) => Before(x, y)
                    /\ (IsArrayIndex(x) /\ ~IsArrayIndex(y)) => Before(x, y)
                    /\ (IsArrayIndex(x) /\ IsArrayIndex(y)
                        /\ ArrayIndex(x) < ArrayIndex(y)) => Before(x, y)

\* Two editor-style ids listed in descending order, both without incoming
\* edge, scheduled together with a dependent node.
C9_Witness ==
    /\ OrderReturned
    /\ Len(argNodes) = 3
    /\ argNodes[1].id = "node-2"
    /\ argNodes[2].id = "node-1"
    /\ NoIncoming("node-2")
    /\ NoIncoming("node-1")
    /\ ~NoIncoming(argNodes[3].id)

\* C10: node lists with pairwise different ids whose present edges are
\* acyclic are always scheduled, and every node is in the order.
C10_AcyclicIsScheduled ==
    (/\ OrderCalled
     /\ \A i, j \in 1..Len(argNodes) : argNodes[i].id = argNodes[j].id => i = j
     /\ Acyclic(PresentPairs))
    => (~ret.threw /\ \A id \in ArgIds : Positions(id) # {})

\* A node without any edge scheduled next to a dependency.
C10_Witness ==
    /\ OrderReturned
    /\ PresentEdges # {}
    /\ \E id \in ArgIds :
          /\ \A i \in 1..Len(argEdges) :
                argEdges[i].source # id /\ argEdges[i].target # id
          /\ Positions(id) # {}

\* The edges of the call with those that miss an endpoint taken out.
EdgesWithinNodes ==
    SelectSeq(argEdges,
              LAMBDA e : e.source \in ArgIds /\ e.target \in ArgIds)

\* C11: edges with a source or target that is no node id do not make the
\* call fail and do not change its result: it is the result for the same
\* nodes with those edges removed.
C11_MissingEndpointsIgnored ==
    OrderCalled =>
        LET r == getExecutionOrder(argNodes, EdgesWithinNodes)
        IN  /\ ret.threw = r.threw
            /\ ret.order = r.order

\* An order of three nodes returned although the first edge has a missing
\* source and the second one counts.
C11_Witness ==
    /\ OrderReturned
    /\ Len(argNodes) = 3
    /\ Len(argEdges) = 2
    /\ argEdges[1].source \notin ArgIds
    /\ argEdges[1].target \in ArgIds
    /\ 2 \in PresentEdges

\* The length of the longest path of present edges that ends in id.
RECURSIVE Depth(_)
Depth(id) ==
    IF NoIncoming(id)
    THEN 0
    ELSE LET before == {Depth(p[1]) : p \in {q \in PresentPairs : q[2] = id}}
         IN  1 + CHOOSE d \in before : \A e \in before : e <= d

\* C27: the returned order goes level by level: a node of smaller depth
\* (longest path from a node without incoming edge) is before every node
\* of greater depth; so the nodes without incoming edge come first, and a
\* chain comes out in chain order.
C27_LevelByLevel ==
    OrderReturned =>
        \A x, y \in ArgIds : Depth(x) < Depth(y) => Before(x, y)

\* The chain 1 -> 2 -> node-1, its nodes listed back to front.
C27_Witness ==
    /\ OrderReturned
    /\ Len(argNodes) = 3
    /\ argNodes[1].id = "node-1" /\ argNodes[2].id = "2" /\ argNodes[3].id = "1"
    /\ PresentPairs = {<<"1", "2">>, <<"2", "node-1">>}
    /\ ret.order = <<"1", "2", "node-1">>

-----------------------------------------------------------------------------
(* Properties of a run, checked under SpecRun.                             *)

Running == {k \in 1..Len(nodes) : nodes[k].status = "running"}

\* The live node with this id, where there is one.
Live(nodeId) == findNode(nodes, nodeId) # 0
StatusOf(nodeId) == nodes[findNode(nodes, nodeId)].status

\* The name the run's snapshot holds for this id.
NameOf(nodeId) == closureNodes[findNode(closureNodes, nodeId)].name

\* C13: during a run the steps are taken one at a time in the order the
\* scheduler gave: never two nodes running, and while the step at position
\* k is awaited every earlier step is logged and its node completed, every
\* later node still idle.
C13_OneStepAtATime ==
    /\ Cardinality(Running) <= 1
    /\ pc = "awaiting" =>
          /\ runOrder = getExecutionOrder(closureNodes, edges).order
          /\ loopIndex \in 1..Len(runOrder)
          /\ Len(logs) = loopIndex - 1
          /\ \A j \in 1..Len(runOrder) :
                /\ j < loopIndex => logs[j].nodeId = runOrder[j]
                /\ Live(runOrder[j]) =>
                      StatusOf(runOrder[j]) =
                          IF j < loopIndex THEN "completed"
                          ELSE IF j = loopIndex THEN "running"
                          ELSE "idle"

C13_Witness ==
    /\ pc = "awaiting"
    /\ runOrder = <<"node-2", "node-1">>
    /\ loopIndex = 2
    /\ Len(nodes) = 2
    /\ nodes[1].status = "running"
    /\ nodes[2].status = "completed"

\* C14: a run over an acyclic pipeline whose steps all succeed and whose
\* nodes are not edited meanwhile ends with every node completed, one log
\* entry per node in execution order carrying its id and name, and
\* isExecuting false.
C14_CleanRunCompletesAll ==
    (runResult = "completed" /\ nodeIdSet(nodes) = nodeIdSet(closureNodes)) =>
        /\ \A k \in 1..Len(nodes) : nodes[k].status = "completed"
        /\ Len(runOrder) = Len(nodes)
        /\ nodeIdSet(nodes) = Range(runOrder)
        /\ Len(logs) = Len(runOrder)
        /\ \A j \in 1..Len(runOrder) :
              /\ logs[j].nodeId = runOrder[j]
              /\ logs[j].nodeName = NameOf(runOrder[j])
        /\ ~isExecuting

C14_Witness ==
    /\ runResult = "completed"
    /\ Len(nodes) = 2
    /\ Len(edges) = 1
    /\ runOrder = <<"node-2", "node-1">>
    /\ Len(logs) = 2
    /\ logs[1].nodeName = "Model 2"

\* The log entries of the catch block.
SystemEntries == {j \in 1..Len(logs) : logs[j].nodeId = ""}

\* The id whose step failed, after a run a failing step has stopped.
FailedId == runOrder[loopIndex]

\* C15: after a step has failed no later node of the order was started:
\* each is still idle and has no log entry, and each node completed before
\* the failure is still completed.
C15_FailureStopsTheWalk ==
    runResult = "stepFailed" =>
        \A j \in 1..Len(runOrder) :
            /\ j > loopIndex =>
                  /\ Live(runOrder[j]) => StatusOf(runOrder[j]) = "idle"
                  /\ \A l \in 1..Len(logs) : logs[l].nodeId # runOrder[j]
            /\ j < loopIndex =>
                  /\ Live(runOrder[j]) => StatusOf(runOrder[j]) = "completed"
                  /\ logs[j].nodeId = runOrder[j]

C15_Witness ==
    /\ runResult = "stepFailed"
    /\ Len(runOrder) = 2
    /\ loopIndex = 1
    /\ Len(nodes) = 2
    /\ StatusOf(runOrder[2]) = "idle"
    /\ Len(logs) = 1

\* C16: the node whose step failed ends the run with status error.
C16_FailedNodeGetsError ==
    (runResult = "stepFailed" /\ Live(FailedId)) => StatusOf(FailedId) = "error"

C18_RunEventuallyEnds == isExecuting ~> ~isExecuting

C18_Witness ==
    /\ runResult \in {"completed", "stepFailed"}
    /\ ~isExecuting
    /\ Len(runOrder) = 1
    /\ Len(logs) = 1

\* C19: a node removed from the live nodes while an earlier step is
\* suspended is skipped when the walk reaches it, and gets no log entry.
C19_RemovedNodeSkipped ==
    \A nodeId \in removedAhead :
        \A l \in 1..Len(logs) : logs[l].nodeId # nodeId

\* C20: a run request with no nodes starts no run: isExecuting stays false,
\* the logs are neither cleared nor extended, and no status changes.
C20_EmptyRequestStartsNothing ==
    [][RunRequestOnEmpty =>
          /\ ~isExecuting'
          /\ pc' = "idle"
          /\ logs' = logs
          /\ nodes' = nodes]_vars

C20_Witness ==
    /\ runResult = "empty"
    /\ Len(nodes) = 0
    /\ Len(logs) = 2
    /\ closureNodes # <<>>

\* A step in which handleExecute gets past its guard and starts a run.
RunStarts == ExecuteClick

\* C21: a run over at least one node starts from a clean slate: the logs
\* are emptied, isExecuting is set, and every status left by an earlier
\* run is reset to idle before the first step is begun (the first node of
\* the order, set running in the same synchronous block, is the only one
\* not idle).  When the scheduler fails instead, the reset has still
\* happened and only the failure is in the logs.
C21_RunStartsClean ==
    [][RunStarts =>
          \/ /\ runResult' = "started"
             /\ logs' = <<>>
             /\ isExecuting'
             /\ \A k \in 1..Len(nodes') :
                   nodes'[k].status =
                       IF nodes'[k].id = runOrder'[loopIndex']
                       THEN "running" ELSE "idle"
          \/ /\ runResult' = "schedulerFailed"
             /\ Len(logs') = 1
             /\ \A k \in 1..Len(nodes') : nodes'[k].status = "idle"]_vars

C21_Witness ==
    /\ pc = "awaiting"
    /\ loopIndex = 1
    /\ logs = <<>>
    /\ isExecuting
    /\ Len(nodes) = 2
    /\ \A k \in 1..2 : closureNodes[k].status = "completed"
    /\ StatusOf(runOrder[2]) = "idle"

\* The latest run request was made on a pipeline the scheduler refuses.
SchedulerRefused ==
    /\ closureNodes # <<>>
    /\ getExecutionOrder(closureNodes, edges).threw

\* C22: a run request on which the scheduler fails is over at once: no
\* step is awaited, no node is running or completed, and the logs hold
\* the report of the failure and no entry of a node.
C22_SchedulerFailureIsFatal ==
    SchedulerRefused =>
        /\ pc = "idle"
        /\ \A k \in 1..Len(nodes) : nodes[k].status = "idle"
        /\ Len(logs) = 1
        /\ logs[1].nodeId = ""
        /\ logs[1].message = "Error: " \o CyclicOrDisconnected

C22_Witness ==
    /\ SchedulerRefused
    /\ runResult = "schedulerFailed"
    /\ Len(closureNodes) = 2
    /\ Len(logs) = 1

\* A step in which handleConnect turns a complete gesture down.
ConnectionRejected ==
    \E source, target \in PlacedIds :
        /\ ConnectGesture(source, target)
        /\ lastConnect'.outcome = "rejected"

StatusIn(nodeList, nodeId) == nodeList[findNode(nodeList, nodeId)].status

\* C24: within a run a status only moves from idle to running and from
\* running to completed; any other change is the reset of a run start,
\* which leaves a node idle or, for the first of the order, running.
C24_StatusMovesForward ==
    [][\A nodeId \in nodeIdSet(nodes) \cap nodeIdSet(nodes') :
          LET before == StatusIn(nodes, nodeId)
              after == StatusIn(nodes', nodeId)
          IN  before # after =>
                  \/ before = "idle" /\ after = "running"
                  \/ before = "running" /\ after = "completed"
                  \/ RunStarts /\ after \in {"idle", "running"}]_vars

C24_Witness ==
    /\ pc = "awaiting"
    /\ runOrder = <<"node-1", "node-2">>
    /\ loopIndex = 2
    /\ Live("node-1") /\ StatusOf("node-1") = "completed"
    /\ Live("node-2") /\ StatusOf("node-2") = "running"
    /\ Len(edges) = 1

\* C25: the logs only grow at the end: every change appends one entry and
\* leaves the earlier entries in place, except the start of a run, which
\* empties them (and, when the scheduler fails, reports that).
C25_LogsAppendOnly ==
    [][logs' # logs =>
          \/ /\ Len(logs') = Len(logs) + 1
             /\ SubSeq(logs', 1, Len(logs)) = logs
          \/ /\ RunStarts
             /\ \/ logs' = <<>>
                \/ Len(logs') = 1 /\ logs'[1].nodeId = ""]_vars

C25_Witness ==
    /\ runResult = "stepFailed"
    /\ Len(logs) = 2
    /\ logs[1].nodeId = "node-2"
    /\ logs[2].nodeId = ""

-----------------------------------------------------------------------------
(* Properties of simulateNodeExecution, checked under SpecSim.             *)

SimCalled == ret.fn = "simulateNodeExecution"

\* The phrase the four kinds are to get.
KindPhrase(nodeType) ==
    CASE nodeType = "Data Source" -> "processed 100 records"
      [] nodeType = "Transformer" -> "applied transformation"
      [] nodeType = "Model" -> "generated predictions"
      [] nodeType = "Sink" -> "saved results"
      [] OTHER -> ""

\* C26: simulateNodeExecution returns an entry with the id and the name it
\* was given, whose message is the kind, the quoted name and the kind's
\* phrase for the four kinds, and Node "<name>" executed for every other
\* kind string.
C26_MessageByKind ==
    SimCalled =>
        /\ ret.log.nodeId = argStep.nodeId
        /\ ret.log.nodeName = argStep.nodeName
        /\ ret.log.message =
              IF KindPhrase(argStep.nodeType) # ""
              THEN argStep.nodeType \o " \"" \o argStep.nodeName \o "\" "
                       \o KindPhrase(argStep.nodeType)
              ELSE "Node \"" \o argStep.nodeName \o "\" executed"

\* C28: runs do not overlap.  While isExecuting is true the one call of
\* handleExecute is suspended at its await, and no step starts another:
\* the order walked and the nodes closed over stay, the loop index and
\* the logs do not go back.
C28_RunsNeverOverlap ==
    [][/\ isExecuting <=> pc = "awaiting"
       /\ isExecuting =>
             /\ ~RunStarts
             /\ closureNodes' = closureNodes
             /\ runOrder' = runOrder
             /\ loopIndex' >= loopIndex
             /\ Len(logs') >= Len(logs)]_vars

C28_Witness ==
    /\ isExecuting
    /\ ExecuteDisabled
    /\ loopIndex = 1
    /\ Len(nodes) = 2
    /\ Len(edges) = 2
    /\ \E k \in 1..2 : closureNodes[k].status = "running"

\* C29: whenever isExecuting is false no node has status running.
C29_IdleMeansNoneRunning == ~isExecuting => Running = {}

\* The entries of the logs that steps wrote, and the ids they carry.
NodeEntries == SelectSeq(logs, LAMBDA entry : entry.nodeId # "")
LoggedIds == [j \in 1..Len(NodeEntries) |-> NodeEntries[j].nodeId]

Completed == {nodes[k].id : k \in {l \in 1..Len(nodes) : nodes[l].status = "completed"}}

\* The nodes are those the latest run request closed over.
NodesNotEdited ==
    /\ closureNodes # <<>>
    /\ nodeIdSet(nodes) = nodeIdSet(closureNodes)

\* C30: as long as the nodes of a run are not edited, the ids of the log
\* entries of nodes are the ids of the completed nodes, in the order of
\* completion and each once: completed and logged go together.
C30_LoggedIffCompleted ==
    NodesNotEdited =>
        /\ Len(LoggedIds) <= Len(runOrder)
        /\ LoggedIds = SubSeq(runOrder, 1, Len(LoggedIds))
        /\ Cardinality(Range(LoggedIds)) = Len(LoggedIds)
        /\ Range(LoggedIds) = Completed

C30_Witness ==
    /\ NodesNotEdited
    /\ pc = "awaiting"
    /\ loopIndex = 2
    /\ LoggedIds = <<"node-2">>
    /\ Completed = {"node-2"}

====
